---- MODULE Spec2Model ----
(***************************************************************************)
(* CrewAI MCP server (src/mcp_server.py) and its client connector          *)
(* (src/crewai_connector.py): the POST /mcp dispatcher, the two tool       *)
(* handlers, the JSON transport between them and the connector's           *)
(* operations.                                                             *)
(***************************************************************************)
EXTENDS Naturals, Sequences, FiniteSets, TLC

VARIABLES
    tools,      \* SimpleMCPServer.tools: the registry, in insertion order
    hashSeed,   \* the process's string-hash seed, fixed when the server starts
    served,     \* how many POST /mcp requests the server has handled
    last,       \* the exchange completed most recently
    inflight    \* the POST /mcp requests being handled at the same time

vars == <<tools, hashSeed, served, last, inflight>>

(***************************************************************************)
(* Bounds of the model.                                                    *)
(***************************************************************************)
MaxServed == 2
MaxSeed == 1

(***************************************************************************)
(* Python / JSON values.  A value is [t, s]: t the type, s the text that   *)
(* carries it (the string itself, the decimal of an int, the repr of a     *)
(* list).  Absent stands for a key that is not in its mapping.             *)
(***************************************************************************)
Absent == [t |-> "absent", s |-> ""]
None == [t |-> "none", s |-> ""]
Str(x) == [t |-> "str", s |-> x]
Int(x) == [t |-> "int", s |-> x]
List(x) == [t |-> "list", s |-> x]

\* bool(v): None, "", 0 and [] are falsy
Truthy(v) ==
    CASE v.t = "absent" -> FALSE
      [] v.t = "none" -> FALSE
      [] v.t = "str" -> v.s # ""
      [] v.t = "int" -> v.s # "0"
      [] v.t = "list" -> v.s # "[]"
      [] OTHER -> TRUE

\* hash(v) is defined: a list (or a mapping) is unhashable
Hashable(v) == v.t \notin {"list", "dict"}

\* type(v).__name__
TypeName(v) ==
    CASE v.t = "none" -> "NoneType"
      [] v.t = "absent" -> "NoneType"
      [] OTHER -> v.t

\* "{v}" inside an f-string
PyFormat(v) ==
    CASE v.t = "none" -> "None"
      [] v.t = "absent" -> "None"
      [] OTHER -> v.s

\* d.get(key): a missing key reads as None
Get(v) == IF v.t = "absent" THEN None ELSE v

\* d.get(key, default)
GetDefault(v, default) == IF v.t = "absent" THEN default ELSE v

(***************************************************************************)
(* The arguments mapping of a call_tool request, or whatever value stands  *)
(* in its place; a non-mapping has t # "dict" and no keys.                 *)
(***************************************************************************)
Args(c, d, r) ==
    [t |-> "dict", s |-> "", crew_id |-> c, task_description |-> d, agent_role |-> r]
NoArgs == Args(Absent, Absent, Absent)
NonDict(v) ==
    [t |-> v.t, s |-> v.s, crew_id |-> Absent, task_description |-> Absent,
     agent_role |-> Absent]
AsValue(a) == [t |-> a.t, s |-> a.s]

\* The params mapping of a request, or a value standing in its place.
Params(n, a) == [t |-> "dict", s |-> "", name |-> n, arguments |-> a]
NoParams == Params(Absent, NonDict(Absent))
NonDictParams(v) == [t |-> v.t, s |-> v.s, name |-> Absent, arguments |-> NonDict(Absent)]

\* The body of a POST /mcp.
Body(m, p) == [method |-> m, params |-> p]

(***************************************************************************)
(* JSON text of a string: json.dumps escapes the quote and the backslash,  *)
(* json.loads undoes it.                                                   *)
(***************************************************************************)
RECURSIVE JsonEscapeFrom(_, _)
JsonEscapeFrom(x, i) ==
    IF i > Len(x) THEN ""
    ELSE LET c == SubSeq(x, i, i)
         IN  IF c = "\"" \/ c = "\\"
             THEN "\\" \o c \o JsonEscapeFrom(x, i + 1)
             ELSE c \o JsonEscapeFrom(x, i + 1)
JsonEscape(x) == JsonEscapeFrom(x, 1)

RECURSIVE JsonUnescapeFrom(_, _)
JsonUnescapeFrom(x, i) ==
    IF i > Len(x) THEN ""
    ELSE IF SubSeq(x, i, i) = "\\" /\ i < Len(x)
    THEN SubSeq(x, i + 1, i + 1) \o JsonUnescapeFrom(x, i + 2)
    ELSE SubSeq(x, i, i) \o JsonUnescapeFrom(x, i + 1)
JsonUnescape(x) == JsonUnescapeFrom(x, 1)

DumpValue(v) == IF v.t = "str" THEN Str(JsonEscape(v.s)) ELSE v
LoadValue(v) == IF v.t = "str" THEN Str(JsonUnescape(v.s)) ELSE v

DumpArgs(a) ==
    [t |-> a.t, s |-> DumpValue(AsValue(a)).s, crew_id |-> DumpValue(a.crew_id),
     task_description |-> DumpValue(a.task_description),
     agent_role |-> DumpValue(a.agent_role)]
LoadArgs(a) ==
    [t |-> a.t, s |-> LoadValue(AsValue(a)).s, crew_id |-> LoadValue(a.crew_id),
     task_description |-> LoadValue(a.task_description),
     agent_role |-> LoadValue(a.agent_role)]

DumpParams(p) ==
    [t |-> p.t, s |-> DumpValue([t |-> p.t, s |-> p.s]).s, name |-> DumpValue(p.name),
     arguments |-> DumpArgs(p.arguments)]
LoadParams(p) ==
    [t |-> p.t, s |-> LoadValue([t |-> p.t, s |-> p.s]).s, name |-> LoadValue(p.name),
     arguments |-> LoadArgs(p.arguments)]

\* json={"method": method, "params": params}: the body as it travels
DumpBody(b) == Body(DumpValue(b.method), DumpParams(b.params))
\* the body as the server reads it back
LoadBody(w) == Body(LoadValue(w.method), LoadParams(w.params))

(***************************************************************************)
(* MCPRequest: pydantic accepts a body whose method is a string and whose  *)
(* params, when given, is a mapping; params defaults to {}.                *)
(***************************************************************************)
\* Mutant: params is required.
ParsesAsRequest_params_required(b) == b.method.t = "str" /\ b.params.t = "dict"

ParsesAsRequest(b) == b.method.t = "str" /\ b.params.t \in {"dict", "absent"}
MCPRequest(b) ==
    [method |-> b.method.s,
     params |-> IF b.params.t = "absent" THEN Params(Absent, NonDict(Absent)) ELSE b.params]

(***************************************************************************)
(* MCPResponse and the data records the handlers build.                    *)
(***************************************************************************)
NoData == [t |-> "none"]
MCPResponse(success, data, error) == [success |-> success, data |-> data, error |-> error]

\* No envelope at all: the place of one in a response that carries none.
NoEnvelope == MCPResponse(FALSE, NoData, None)

\* What a Python call ends in: a value, or an exception with its str().
Return(val, trace) == [raised |-> FALSE, exc |-> "", val |-> val, trace |-> trace]
Raise(msg, trace) == [raised |-> TRUE, exc |-> msg, val |-> NoData, trace |-> trace]

(***************************************************************************)
(* SimpleMCPServer.__init__: the registry.                                 *)
(***************************************************************************)
InitialTools ==
    << [name |-> "get_crew_status",
        description |-> "Get the status of CrewAI agents and tasks",
        schema |-> [properties |-> <<"crew_id">>, required |-> <<>>]],
       [name |-> "execute_crew_task",
        description |-> "Execute a task using CrewAI",
        schema |-> [properties |-> <<"task_description", "agent_role">>,
                    required |-> <<"task_description", "agent_role">>]] >>

ToolNames(reg) == {reg[i].name : i \in DOMAIN reg}

(***************************************************************************)
(* hash(): an int hashes to itself, a string to a value the process's seed *)
(* decides ("" hashes to 0 whatever the seed).                             *)
(***************************************************************************)
HashModulus == 10000
CharCode(c) ==
    CASE c = "X" -> 88
      [] c = "a" -> 97
      [] c = "\"" -> 34
      [] c = "\\" -> 92
      [] OTHER -> 63
RECURSIVE StrHash(_, _)
StrHash(x, h) ==
    IF Len(x) = 0 THEN h
    ELSE StrHash(SubSeq(x, 2, Len(x)), (h * 31 + CharCode(SubSeq(x, 1, 1))) % 65536)
PyHash(v, seed) ==
    CASE v.t = "str" -> IF v.s = "" THEN 0 ELSE StrHash(v.s, 7919 * (seed + 1))
      [] v.t = "int" -> CHOOSE n \in 0..9 : ToString(n) = v.s
      [] OTHER -> 0

(***************************************************************************)
(* The tool handlers.                                                      *)
(***************************************************************************)
\* Mutant: the record always names the default crew.
get_crew_status_default(crew_id, trace) ==
    Return([t |-> "dict", kind |-> "status", crew_id |-> Str("default"), status |-> "active",
            agents |-> <<"researcher", "writer", "reviewer">>,
            current_task |-> "Analyzing data", completion |-> "0.75",
            timestamp |-> "2024-01-01T12:00:00Z"],
           Append(trace, "get_crew_status"))

get_crew_status(crew_id, trace) ==
    Return([t |-> "dict", kind |-> "status", crew_id |-> crew_id, status |-> "active",
            agents |-> <<"researcher", "writer", "reviewer">>,
            current_task |-> "Analyzing data", completion |-> "0.75",
            timestamp |-> "2024-01-01T12:00:00Z"],
           Append(trace, "get_crew_status"))

\* Mutant: the two fields of the record are filled from each other's argument.
execute_crew_task_swapped(task_description, agent_role, seed, trace) ==
    LET ran == Append(trace, "execute_crew_task")
    IN  IF ~Hashable(task_description)
        THEN Raise("unhashable type: '" \o TypeName(task_description) \o "'", ran)
        ELSE Return([t |-> "dict", kind |-> "task",
                     task_id |-> "task_" \o ToString(PyHash(task_description, seed) % HashModulus),
                     status |-> "completed",
                     agent_role |-> task_description,
                     task_description |-> agent_role,
                     result |-> "Task '" \o PyFormat(task_description)
                                \o "' completed successfully by "
                                \o PyFormat(agent_role) \o " agent",
                     execution_time |-> "2.5s",
                     timestamp |-> "2024-01-01T12:00:00Z"],
                    ran)

execute_crew_task(task_description, agent_role, seed, trace) ==
    LET ran == Append(trace, "execute_crew_task")
    IN  IF ~Hashable(task_description)
        THEN Raise("unhashable type: '" \o TypeName(task_description) \o "'", ran)
        ELSE Return([t |-> "dict", kind |-> "task",
                     task_id |-> "task_" \o ToString(PyHash(task_description, seed) % HashModulus),
                     status |-> "completed",
                     agent_role |-> agent_role,
                     task_description |-> task_description,
                     result |-> "Task '" \o PyFormat(task_description)
                                \o "' completed successfully by "
                                \o PyFormat(agent_role) \o " agent",
                     execution_time |-> "2.5s",
                     timestamp |-> "2024-01-01T12:00:00Z"],
                    ran)

\* arguments.get(...) on something that is no mapping
NoGetAttribute(arguments) ==
    "'" \o TypeName(AsValue(arguments)) \o "' object has no attribute 'get'"

\* Mutant: only a missing key counts, an empty value passes.
RequiredMissing_only_none(task_description, agent_role) ==
    task_description.t = "none" \/ agent_role.t = "none"

\* not task_description or not agent_role
RequiredMissing(task_description, agent_role) ==
    ~Truthy(task_description) \/ ~Truthy(agent_role)

execute_tool(tool_name, arguments, seed) ==
    LET trace == <<"execute_tool">>
    IN  IF tool_name = Str("get_crew_status")
        THEN IF arguments.t # "dict"
             THEN Raise(NoGetAttribute(arguments), trace)
             ELSE get_crew_status(GetDefault(arguments.crew_id, Str("default")), trace)
        ELSE IF tool_name = Str("execute_crew_task")
        THEN IF arguments.t # "dict"
             THEN Raise(NoGetAttribute(arguments), trace)
             ELSE LET task_description == Get(arguments.task_description)
                      agent_role == Get(arguments.agent_role)
                  IN  IF RequiredMissing(task_description, agent_role)
                      THEN Raise("task_description and agent_role are required", trace)
                      ELSE execute_crew_task(task_description, agent_role, seed, trace)
        ELSE Raise("Unknown tool: " \o PyFormat(tool_name), trace)

(***************************************************************************)
(* handle_mcp_request: the body of the try, then the except around it.     *)
(***************************************************************************)
\* Mutant: the whole descriptor is listed, schema included.
ListTools_with_schema(reg) ==
    [t |-> "list", kind |-> "tools", items |-> reg]

ListTools(reg) ==
    [t |-> "list", kind |-> "tools",
     items |-> [i \in DOMAIN reg |-> [name |-> reg[i].name, description |-> reg[i].description]]]

\* tool_name not in self.tools: raises on an unhashable key
NotInTools(tool_name, reg) ==
    IF ~Hashable(tool_name)
    THEN Raise("unhashable type: '" \o TypeName(tool_name) \o "'", <<>>)
    ELSE Return(~(tool_name.t = "str" /\ tool_name.s \in ToolNames(reg)), <<>>)

UnknownTool(tool_name) ==
    MCPResponse(FALSE, NoData, Str("Unknown tool: " \o PyFormat(tool_name)))

\* Mutant: the message does not name the method.
UnknownMethod_unnamed(method) ==
    MCPResponse(FALSE, NoData, Str("Unknown method"))

UnknownMethod(method) ==
    MCPResponse(FALSE, NoData, Str("Unknown method: " \o method))

Dispatch(request, reg, seed) ==
    IF request.method = "list_tools"
    THEN Return(MCPResponse(TRUE, ListTools(reg), None), <<>>)
    ELSE IF request.method = "call_tool"
    THEN LET tool_name == Get(request.params.name)
             arguments == IF request.params.arguments.t = "absent"
                          THEN NoArgs ELSE request.params.arguments
             unknown == NotInTools(tool_name, reg)
         IN  IF unknown.raised THEN Raise(unknown.exc, <<>>)
             ELSE IF unknown.val
             THEN Return(UnknownTool(tool_name), <<>>)
             ELSE LET result == execute_tool(tool_name, arguments, seed)
                  IN  IF result.raised THEN result
                      ELSE Return(MCPResponse(TRUE, result.val, None), result.trace)
    ELSE Return(UnknownMethod(request.method), <<>>)

\* Mutant: the except branch forgets error=str(e).
handle_mcp_request_drops_message(request, reg, seed) ==
    LET r == Dispatch(request, reg, seed)
    IN  IF r.raised
        THEN [escaped |-> FALSE, exc |-> r.exc, trace |-> r.trace,
              envelope |-> MCPResponse(FALSE, NoData, None)]
        ELSE [escaped |-> FALSE, exc |-> "", trace |-> r.trace, envelope |-> r.val]

\* Mutant: no except around the body, so what the body raises leaves the handler.
handle_mcp_request_no_except(request, reg, seed) ==
    LET r == Dispatch(request, reg, seed)
    IN  IF r.raised
        THEN [escaped |-> TRUE, exc |-> r.exc, trace |-> r.trace, envelope |-> NoEnvelope]
        ELSE [escaped |-> FALSE, exc |-> "", trace |-> r.trace, envelope |-> r.val]

\* except Exception as e: return MCPResponse(success=False, error=str(e))
handle_mcp_request(request, reg, seed) ==
    LET r == Dispatch(request, reg, seed)
    IN  IF r.raised
        THEN [escaped |-> FALSE, exc |-> r.exc, trace |-> r.trace,
              envelope |-> MCPResponse(FALSE, NoData, Str(r.exc))]
        ELSE [escaped |-> FALSE, exc |-> "", trace |-> r.trace, envelope |-> r.val]

(***************************************************************************)
(* handle_mcp_request in the two stretches its `await self.execute_tool`   *)
(* divides it into, for requests handled at the same time.  Each stretch   *)
(* gives the request's next position, its envelope once it has one, and    *)
(* the registry it leaves: no line of the handler writes self.tools.       *)
(***************************************************************************)
\* Mutant: a name that is not registered is registered on the way.
BeforeAwait_registers(request, reg) ==
    LET answered(env, r) == [pc |-> "done", envelope |-> env, reg |-> r]
        tool_name == Get(request.params.name)
        unknown == NotInTools(tool_name, reg)
    IN  IF request.method = "list_tools"
        THEN answered(MCPResponse(TRUE, ListTools(reg), None), reg)
        ELSE IF request.method = "call_tool"
        THEN IF unknown.raised
             THEN answered(MCPResponse(FALSE, NoData, Str(unknown.exc)), reg)
             ELSE IF unknown.val
             THEN answered(UnknownTool(tool_name),
                           Append(reg, [name |-> PyFormat(tool_name), description |-> "",
                                        schema |-> [properties |-> <<>>, required |-> <<>>]]))
             ELSE [pc |-> "execute_tool", envelope |-> NoEnvelope, reg |-> reg]
        ELSE answered(UnknownMethod(request.method), reg)

\* from the start of the try to the await, or to the return before it
BeforeAwait(request, reg) ==
    LET answered(env) == [pc |-> "done", envelope |-> env, reg |-> reg]
        tool_name == Get(request.params.name)
        unknown == NotInTools(tool_name, reg)
    IN  IF request.method = "list_tools"
        THEN answered(MCPResponse(TRUE, ListTools(reg), None))
        ELSE IF request.method = "call_tool"
        THEN IF unknown.raised
             THEN answered(MCPResponse(FALSE, NoData, Str(unknown.exc)))
             ELSE IF unknown.val
             THEN answered(UnknownTool(tool_name))
             ELSE [pc |-> "execute_tool", envelope |-> NoEnvelope, reg |-> reg]
        ELSE answered(UnknownMethod(request.method))

\* execute_tool, then the return after the await or the except branch
AfterAwait(request, reg, seed) ==
    LET tool_name == Get(request.params.name)
        arguments == IF request.params.arguments.t = "absent"
                     THEN NoArgs ELSE request.params.arguments
        result == execute_tool(tool_name, arguments, seed)
    IN  [pc |-> "done",
         envelope |-> IF result.raised
                      THEN MCPResponse(FALSE, NoData, Str(result.exc))
                      ELSE MCPResponse(TRUE, result.val, None),
         reg |-> reg]

(***************************************************************************)
(* The envelope as JSON: every string of it is escaped on the way out of   *)
(* the server and unescaped by response.json() in the connector.           *)
(***************************************************************************)
DumpData(d) ==
    IF d.t = "none" THEN d
    ELSE IF d.kind = "tools"
    THEN [d EXCEPT !.items = [i \in DOMAIN d.items |->
                                [name |-> JsonEscape(d.items[i].name),
                                 description |-> JsonEscape(d.items[i].description)]]]
    ELSE IF d.kind = "status"
    THEN [d EXCEPT !.crew_id = DumpValue(d.crew_id), !.status = JsonEscape(d.status),
                   !.agents = [i \in DOMAIN d.agents |-> JsonEscape(d.agents[i])],
                   !.current_task = JsonEscape(d.current_task), !.timestamp = JsonEscape(d.timestamp)]
    ELSE [d EXCEPT !.task_id = JsonEscape(d.task_id), !.status = JsonEscape(d.status),
                   !.agent_role = DumpValue(d.agent_role),
                   !.task_description = DumpValue(d.task_description),
                   !.result = JsonEscape(d.result), !.execution_time = JsonEscape(d.execution_time),
                   !.timestamp = JsonEscape(d.timestamp)]

LoadData(d) ==
    IF d.t = "none" THEN d
    ELSE IF d.kind = "tools"
    THEN [d EXCEPT !.items = [i \in DOMAIN d.items |->
                                [name |-> JsonUnescape(d.items[i].name),
                                 description |-> JsonUnescape(d.items[i].description)]]]
    ELSE IF d.kind = "status"
    THEN [d EXCEPT !.crew_id = LoadValue(d.crew_id), !.status = JsonUnescape(d.status),
                   !.agents = [i \in DOMAIN d.agents |-> JsonUnescape(d.agents[i])],
                   !.current_task = JsonUnescape(d.current_task), !.timestamp = JsonUnescape(d.timestamp)]
    ELSE [d EXCEPT !.task_id = JsonUnescape(d.task_id), !.status = JsonUnescape(d.status),
                   !.agent_role = LoadValue(d.agent_role),
                   !.task_description = LoadValue(d.task_description),
                   !.result = JsonUnescape(d.result), !.execution_time = JsonUnescape(d.execution_time),
                   !.timestamp = JsonUnescape(d.timestamp)]

DumpEnvelope(e) == MCPResponse(e.success, DumpData(e.data), DumpValue(e.error))
LoadEnvelope(e) == MCPResponse(e.success, LoadData(e.data), LoadValue(e.error))

(***************************************************************************)
(* The HTTP endpoints.  A body that does not parse as an MCPRequest is     *)
(* answered 422 by the framework and the handler never runs; an exception  *)
(* that left the handler would be answered 500.                            *)
(***************************************************************************)
NoRequest == [method |-> "", params |-> NoParams]
NoHttp == [status |-> 0, envelope |-> NoEnvelope, text |-> ""]

PostMcp(wire, reg, seed) ==
    LET b == LoadBody(wire)
    IN  IF ~ParsesAsRequest(b)
        THEN [parsed |-> FALSE, request |-> NoRequest, escaped |-> FALSE, trace |-> <<>>,
              envelope |-> NoEnvelope,
              http |-> [status |-> 422, envelope |-> NoEnvelope,
                        text |-> "{\"detail\":\"validation error\"}"]]
        ELSE LET h == handle_mcp_request(MCPRequest(b), reg, seed)
             IN  [parsed |-> TRUE, request |-> MCPRequest(b), escaped |-> h.escaped,
                  trace |-> h.trace, envelope |-> h.envelope,
                  http |-> IF h.escaped
                           THEN [status |-> 500, envelope |-> NoEnvelope,
                                 text |-> "Internal Server Error"]
                           ELSE [status |-> 200, envelope |-> DumpEnvelope(h.envelope),
                                 text |-> ""]]

health_check == [status |-> "healthy", server |-> "crewai-mcp-server"]

(***************************************************************************)
(* UpdatedCrewAIConnector.                                                 *)
(***************************************************************************)
Agents == {"researcher", "writer", "reviewer"}

\* What the caller of a connector operation gets.
Returned(val) == [raised |-> FALSE, exc |-> "", val |-> val]
Raised(msg) == [raised |-> TRUE, exc |-> msg, val |-> NoData]
NoOutcome == Returned(NoData)

\* str() of what aiohttp raises: a connection error names the host, a
\* timeout (asyncio.TimeoutError) has an empty message.
FaultText(fault) ==
    IF fault = "connect" THEN "Cannot connect to host localhost:8000" ELSE ""

\* Mutant: the status is not looked at, whatever body came is returned.
send_mcp_request_ignores_status(http, fault) ==
    IF fault # "none"
    THEN Raised("Failed to send MCP request: " \o FaultText(fault))
    ELSE Returned(LoadEnvelope(http.envelope))

\* send_mcp_request, from the response (or the fault) on
send_mcp_request(http, fault) ==
    IF fault # "none"
    THEN Raised("Failed to send MCP request: " \o FaultText(fault))
    ELSE IF http.status = 200
    THEN Returned(LoadEnvelope(http.envelope))
    ELSE Raised("Failed to send MCP request: " \o "MCP request failed: "
                \o ToString(http.status) \o " - " \o http.text)

list_mcp_tools(http, fault) ==
    LET response == send_mcp_request(http, fault)
    IN  IF response.raised THEN response
        ELSE IF response.val.success
        THEN Returned(response.val.data)
        ELSE Raised("Failed to list MCP tools: " \o PyFormat(response.val.error))

get_crew_status_from_mcp(http, fault) == send_mcp_request(http, fault)

ExecFailed(msg) ==
    Returned([t |-> "dict", kind |-> "exec", status |-> "failed", error |-> msg,
              crew_result |-> "", mcp_response |-> NoEnvelope])

\* execute_crew_with_mcp, from the answer to its report on
execute_crew_with_mcp(crew_result, http, fault) ==
    LET mcp_response == send_mcp_request(http, fault)
    IN  IF mcp_response.raised
        THEN ExecFailed(mcp_response.exc)
        ELSE Returned([t |-> "dict", kind |-> "exec", status |-> "success", error |-> "",
                       crew_result |-> crew_result, mcp_response |-> mcp_response.val])

\* The operation `op` finishing on the response (or the fault).
Finish(call, http, fault) ==
    CASE call.op = "send_mcp_request" -> send_mcp_request(http, fault)
      [] call.op = "list_mcp_tools" -> list_mcp_tools(http, fault)
      [] call.op = "get_crew_status_from_mcp" -> get_crew_status_from_mcp(http, fault)
      [] call.op = "execute_crew_with_mcp" ->
            execute_crew_with_mcp(call.crew_result, http, fault)
      [] OTHER -> NoOutcome

\* A request on its way: who sent it, the body given and the body as JSON.
Call(op, body, crew_result) ==
    [op |-> op, body |-> body, wire |-> DumpBody(body), crew_result |-> crew_result]
NoCall == [op |-> "none", body |-> Body(Absent, NoParams), wire |-> Body(Absent, NoParams),
           crew_result |-> ""]

(***************************************************************************)
(* The inputs.                                                             *)
(***************************************************************************)
Names ==
    {Absent, None, Str("get_crew_status"), Str("execute_crew_task"), Str("nope"),
     Int("7"), List("['x']")}
CrewIds == {Absent, None, Str("abc"), Str("a\"b")}
TaskDescriptions == {Absent, Str(""), Str("X"), Str("a\"\\"), List("['x']")}
AgentRoles == {Absent, Str(""), Str("researcher")}
NonMappings == {NonDict(None), NonDict(List("[]")), NonDict(Str("X"))}

\* The arguments tried with a tool name: none, a non-mapping, the keys the
\* tool reads in every combination, and a mapping with keys it does not read.
ArgumentsFor(n) ==
    IF n = Str("get_crew_status")
    THEN {NonDict(Absent)} \cup NonMappings
         \cup {Args(c, Absent, Absent) : c \in CrewIds}
         \cup {Args(Str("abc"), Str("X"), Absent)}
    ELSE IF n = Str("execute_crew_task")
    THEN {NonDict(Absent), NonDict(None)}
         \cup {Args(Absent, d, r) : d \in TaskDescriptions, r \in AgentRoles}
         \cup {Args(Str("abc"), Str("X"), Str("researcher"))}
    ELSE {NonDict(Absent), NonDict(None), Args(Str("abc"), Str("X"), Str("researcher"))}

CallToolParams == UNION {{Params(n, a) : a \in ArgumentsFor(n)} : n \in Names}
SomeParams == Params(Str("get_crew_status"), Args(Str("abc"), Absent, Absent))
OtherParams == {NoParams, NonDictParams(Absent), NonDictParams(List("[]")), SomeParams}

\* What a client can post.
Bodies ==
    {Body(Str("list_tools"), p) : p \in OtherParams}
    \cup {Body(m, p) : m \in {Absent, Str("bogus")}, p \in {NonDictParams(Absent), SomeParams}}
    \cup {Body(None, NoParams), Body(Str(""), NoParams)}
    \cup {Body(Str("call_tool"), p) : p \in CallToolParams \cup OtherParams}

\* What callers pass to the connector.
SendArguments ==
    {Body(m, p) : m \in {None, Str("list_tools"), Str("bogus")},
                  p \in {Params(Absent, NonDict(Absent))}}
    \cup {Body(Str("call_tool"), Params(n, NoArgs)) : n \in {Str("nope"), Str("get_crew_status")}}
ConnectorCrewIds == {"default", "test-crew", "a\"b"}
ConnectorTasks == {"", "X", "a\"\\"}
ConnectorRoles == {"researcher", "writer", "chef"}
CrewResults == {"findings"}

(***************************************************************************)
(* The state machine.  Each action is one client operation from the call   *)
(* to its result: the request travels, the server handles it (unless a     *)
(* transport fault keeps it away), the response travels back (unless a     *)
(* fault loses it) and the operation finishes.  `last` keeps the exchange  *)
(* completed most recently: the call, what the server did with it and      *)
(* what the caller got.                                                    *)
(***************************************************************************)
NoServer ==
    [parsed |-> FALSE, request |-> NoRequest, escaped |-> FALSE, trace |-> <<>>,
     envelope |-> NoEnvelope, http |-> NoHttp]
NoProbe == [status |-> "", server |-> ""]

Exchange(call, fault, handled, srv, outcome) ==
    [call |-> call, fault |-> fault, handled |-> handled, parsed |-> srv.parsed,
     request |-> srv.request, escaped |-> srv.escaped, trace |-> srv.trace,
     envelope |-> srv.envelope, http |-> srv.http, outcome |-> outcome,
     probe |-> NoProbe]

\* "none": the response arrives.  "connect": the connection fails and the
\* server never sees the request.  "timeout": the 30 s timeout expires,
\* before the server got the request or after it handled it.
Faults == {"none", "connect", "timeout"}
Reaches(fault, reached) ==
    /\ fault = "none" => reached
    /\ fault = "connect" => ~reached

Complete(call, fault, reached, reg, seed) ==
    LET srv == IF reached THEN PostMcp(call.wire, reg, seed) ELSE NoServer
        http == IF fault = "none" THEN srv.http ELSE NoHttp
    IN  Exchange(call, fault, reached, srv, Finish(call, http, fault))

Init ==
    /\ tools = InitialTools
    /\ hashSeed \in 0..MaxSeed
    /\ served = 0
    /\ last = Exchange(NoCall, "none", FALSE, NoServer, NoOutcome)
    /\ inflight = {}

\* The server got one more POST /mcp, or none.
Served(reached) ==
    /\ reached => served < MaxServed
    /\ served' = IF reached THEN served + 1 ELSE served

\* a client other than the connector posts a body
RawPost ==
    \E b \in Bodies :
        /\ Served(TRUE)
        /\ last' = Complete(Call("raw", b, ""), "none", TRUE, tools, hashSeed)
        /\ UNCHANGED <<tools, hashSeed, inflight>>

\* connector.send_mcp_request(method, params)
SendMcpRequest ==
    \E b \in SendArguments, fault \in Faults, reached \in BOOLEAN :
        /\ Reaches(fault, reached)
        /\ Served(reached)
        /\ last' = Complete(Call("send_mcp_request", b, ""), fault, reached, tools, hashSeed)
        /\ UNCHANGED <<tools, hashSeed, inflight>>

\* connector.list_mcp_tools(): send_mcp_request("list_tools")
ListMcpTools ==
    \E fault \in Faults, reached \in BOOLEAN :
        /\ Reaches(fault, reached)
        /\ Served(reached)
        /\ last' = Complete(Call("list_mcp_tools",
                                 Body(Str("list_tools"), Params(Absent, NonDict(Absent))),
                                 ""),
                            fault, reached, tools, hashSeed)
        /\ UNCHANGED <<tools, hashSeed, inflight>>

\* connector.get_crew_status_from_mcp(crew_id)
GetCrewStatusFromMcp ==
    \E crew_id \in ConnectorCrewIds, fault \in Faults, reached \in BOOLEAN :
        /\ Reaches(fault, reached)
        /\ Served(reached)
        /\ last' = Complete(Call("get_crew_status_from_mcp",
                                 Body(Str("call_tool"),
                                      Params(Str("get_crew_status"),
                                             Args(Str(crew_id), Absent, Absent))),
                                 ""),
                            fault, reached, tools, hashSeed)
        /\ UNCHANGED <<tools, hashSeed, inflight>>

ExecCall(task_description, agent_role, crew_result) ==
    Call("execute_crew_with_mcp",
         Body(Str("call_tool"),
              Params(Str("execute_crew_task"),
                     Args(Absent, Str(task_description), Str(agent_role)))),
         crew_result)

\* connector.execute_crew_with_mcp(task_description, agent_role): the role
\* is not one of the agents, and nothing is sent
ExecuteUnknownRole ==
    \E task_description \in ConnectorTasks, agent_role \in ConnectorRoles \ Agents :
        /\ last' = Exchange(ExecCall(task_description, agent_role, ""), "none", FALSE,
                            NoServer, ExecFailed("Unknown agent role: " \o agent_role))
        /\ UNCHANGED <<tools, hashSeed, served, inflight>>

\* ... crew.kickoff() raises, and nothing is sent
ExecuteKickoffRaises ==
    \E task_description \in ConnectorTasks, agent_role \in ConnectorRoles \cap Agents :
        /\ last' = Exchange(ExecCall(task_description, agent_role, ""), "none", FALSE,
                            NoServer, ExecFailed("kickoff failed"))
        /\ UNCHANGED <<tools, hashSeed, served, inflight>>

\* ... the crew ran, and the task is reported to the server
ExecuteCrewWithMcp ==
    \E task_description \in ConnectorTasks, agent_role \in ConnectorRoles \cap Agents,
       crew_result \in CrewResults, fault \in Faults, reached \in BOOLEAN :
        /\ Reaches(fault, reached)
        /\ Served(reached)
        /\ last' = Complete(ExecCall(task_description, agent_role, crew_result),
                            fault, reached, tools, hashSeed)
        /\ UNCHANGED <<tools, hashSeed, inflight>>

\* GET /health
HealthCheck ==
    /\ last' = [Exchange([NoCall EXCEPT !.op = "health"], "none", FALSE, NoServer, NoOutcome)
                  EXCEPT !.probe = health_check,
                         !.http = [status |-> 200, envelope |-> NoEnvelope, text |-> ""]]
    /\ UNCHANGED <<tools, hashSeed, served, inflight>>

Next ==
    \/ RawPost
    \/ SendMcpRequest
    \/ ListMcpTools
    \/ GetCrewStatusFromMcp
    \/ ExecuteUnknownRole
    \/ ExecuteKickoffRaises
    \/ ExecuteCrewWithMcp
    \/ HealthCheck

Spec == Init /\ [][Next]_vars

(***************************************************************************)
(* Requests handled at the same time.  A request is accepted, runs to the  *)
(* await, runs the tool, and is answered; the stretches of different       *)
(* requests interleave in any order.  Up to MaxServed requests are         *)
(* accepted, so up to MaxServed are in flight together.                    *)
(***************************************************************************)
ConcurrentBodies ==
    {Body(Str("list_tools"), NoParams),
     Body(Str("bogus"), NoParams),
     Body(Str("call_tool"), Params(Str("nope"), NoArgs)),
     Body(Str("call_tool"), Params(List("['x']"), NoArgs)),
     Body(Str("call_tool"), Params(Str("get_crew_status"), Args(Str("abc"), Absent, Absent))),
     Body(Str("call_tool"), Params(Str("get_crew_status"), NonDict(None))),
     Body(Str("call_tool"),
          Params(Str("execute_crew_task"), Args(Absent, Str("X"), Str("researcher")))),
     Body(Str("call_tool"), Params(Str("execute_crew_task"), Args(Absent, Str("X"), Absent)))}

InFlight(id, request) ==
    [id |-> id, request |-> request, pc |-> "received", envelope |-> NoEnvelope]

\* a POST /mcp arrives and its body parses
Accept ==
    \E b \in ConcurrentBodies :
        /\ served < MaxServed
        /\ ParsesAsRequest(LoadBody(DumpBody(b)))
        /\ inflight' = inflight \cup {InFlight(served + 1, MCPRequest(LoadBody(DumpBody(b))))}
        /\ served' = served + 1
        /\ UNCHANGED <<tools, hashSeed, last>>

\* a request runs from the start of handle_mcp_request to its await
RunToAwait ==
    \E e \in inflight :
        /\ e.pc = "received"
        /\ LET step == BeforeAwait(e.request, tools)
           IN  /\ inflight' = (inflight \ {e})
                                \cup {[e EXCEPT !.pc = step.pc, !.envelope = step.envelope]}
               /\ tools' = step.reg
        /\ UNCHANGED <<hashSeed, served, last>>

\* a request runs execute_tool and the rest of handle_mcp_request
RunTool ==
    \E e \in inflight :
        /\ e.pc = "execute_tool"
        /\ LET step == AfterAwait(e.request, tools, hashSeed)
           IN  /\ inflight' = (inflight \ {e})
                                \cup {[e EXCEPT !.pc = step.pc, !.envelope = step.envelope]}
               /\ tools' = step.reg
        /\ UNCHANGED <<hashSeed, served, last>>

\* the envelope is sent and the request is over
Respond ==
    \E e \in inflight :
        /\ e.pc = "done"
        /\ inflight' = inflight \ {e}
        /\ UNCHANGED <<tools, hashSeed, served, last>>

ConcurrentNext ==
    \/ Accept
    \/ RunToAwait
    \/ RunTool
    \/ Respond

ConcurrentSpec == Init /\ [][ConcurrentNext]_vars

(***************************************************************************)
(* Properties.                                                             *)
(***************************************************************************)
\* The server got the POST /mcp of the last exchange.
Posted == last.handled /\ last.call.op \notin {"none", "health"}
\* ... and the body parsed, so handle_mcp_request ran on last.request.
Handled == Posted /\ last.parsed
\* The name and arguments a call_tool request carries.
ToolName == Get(last.request.params.name)
Arguments ==
    IF last.request.params.arguments.t = "absent" THEN NoArgs
    ELSE last.request.params.arguments
Registered(n) == n.t = "str" /\ n.s \in {"get_crew_status", "execute_crew_task"}

\* C1: every envelope handle_mcp_request returns has exactly one of data and
\* error: success=true comes with data and error null, success=false with an
\* error string and data null.
C1_ExactlyOneOfDataError ==
    Handled =>
        /\ last.envelope.success =>
              last.envelope.data.t # "none" /\ last.envelope.error = None
        /\ ~last.envelope.success =>
              last.envelope.data = NoData /\ last.envelope.error.t = "str"

\* C1 witness: a handler raised and the envelope carries its message alone.
C1_Witness ==
    /\ Handled
    /\ last.trace = <<"execute_tool", "execute_crew_task">>
    /\ ~last.envelope.success
    /\ last.envelope.error = Str("unhashable type: 'list'")
    /\ last.envelope.data = NoData

\* C2: nothing raised while a parsed request is handled leaves
\* handle_mcp_request: an envelope comes back, and when execute_tool raised
\* it is success=false with the raised error's message.
C2_NoExceptionEscapes ==
    Handled =>
        /\ ~last.escaped
        /\ last.http.envelope = DumpEnvelope(last.envelope)
        /\ (last.request.method = "call_tool" /\ Registered(ToolName)) =>
              LET result == execute_tool(ToolName, Arguments, hashSeed)
              IN  result.raised =>
                      last.envelope = MCPResponse(FALSE, NoData, Str(result.exc))

\* C2 witness: call_tool with arguments that are no mapping, answered with
\* the AttributeError's message.
C2_Witness ==
    /\ Handled
    /\ last.request.method = "call_tool"
    /\ ToolName = Str("get_crew_status")
    /\ Arguments.t = "list"
    /\ last.envelope
         = MCPResponse(FALSE, NoData, Str("'list' object has no attribute 'get'"))

\* C3 (as claimed): a call_tool whose name is not registered, or absent, is
\* answered 200 with success=false and "Unknown tool: <name>", and no
\* handler is invoked.
C3_UnknownToolReported ==
    (Handled /\ last.request.method = "call_tool" /\ ~Registered(ToolName)) =>
        /\ last.envelope
             = MCPResponse(FALSE, NoData, Str("Unknown tool: " \o PyFormat(ToolName)))
        /\ last.http.status = 200
        /\ last.trace = <<>>

\* C4: a request whose method is neither list_tools nor call_tool is
\* answered success=false with "Unknown method: <method>", whatever params.
C4_UnknownMethod ==
    (Handled /\ last.request.method \notin {"list_tools", "call_tool"}) =>
        /\ last.envelope
             = MCPResponse(FALSE, NoData, Str("Unknown method: " \o last.call.body.method.s))
        /\ last.trace = <<>>

\* C4 witness: method "bogus" with params that would name a tool.
C4_Witness ==
    /\ Handled
    /\ last.request.method = "bogus"
    /\ last.request.params = SomeParams
    /\ last.envelope.error = Str("Unknown method: bogus")

\* C5: a call_tool for execute_crew_task whose arguments lack
\* task_description or agent_role, or give an empty one, is answered
\* success=false with the message naming the two required fields;
\* execute_crew_task is never entered and the registry is as it was built.
C5_MissingArgumentRejected ==
    LET empty(v) == v.t \in {"absent", "none"} \/ v = Str("")
    IN  (/\ Handled
         /\ last.request.method = "call_tool"
         /\ ToolName = Str("execute_crew_task")
         /\ Arguments.t = "dict"
         /\ empty(Arguments.task_description) \/ empty(Arguments.agent_role)) =>
            /\ last.envelope
                 = MCPResponse(FALSE, NoData,
                               Str("task_description and agent_role are required"))
            /\ last.trace = <<"execute_tool">>
            /\ tools = InitialTools

\* C5 witness: task_description given, agent_role empty.
C5_Witness ==
    /\ Handled
    /\ ToolName = Str("execute_crew_task")
    /\ Arguments.task_description = Str("X")
    /\ Arguments.agent_role = Str("")
    /\ ~last.envelope.success
    /\ last.trace = <<"execute_tool">>

\* C6: list_tools answers success=true with the {name, description} pair of
\* each registered tool, one per tool, in registration order and with no
\* other field, whatever the params and whatever was served before.
C6_ListToolsExact ==
    (Handled /\ last.request.method = "list_tools") =>
        /\ last.envelope.success
        /\ last.envelope.error = None
        /\ last.envelope.data.items
             = << [name |-> "get_crew_status",
                   description |-> "Get the status of CrewAI agents and tasks"],
                  [name |-> "execute_crew_task",
                   description |-> "Execute a task using CrewAI"] >>
        /\ \A i \in DOMAIN tools :
              /\ last.envelope.data.items[i].name = tools[i].name
              /\ last.envelope.data.items[i].description = tools[i].description
        /\ LoadEnvelope(last.http.envelope) = last.envelope

\* C6 witness: list_tools with params naming a tool, after other requests.
C6_Witness ==
    /\ Handled
    /\ served = MaxServed
    /\ last.request.method = "list_tools"
    /\ last.request.params = SomeParams
    /\ Len(last.envelope.data.items) = 2

\* C7: call_tool for get_crew_status with a string crew_id, or none,
\* succeeds: data.crew_id is the crew_id given, "default" when none is, and
\* the other fields of the record are fixed.
C7_CrewStatusSucceeds ==
    (/\ Handled
     /\ last.request.method = "call_tool"
     /\ ToolName = Str("get_crew_status")
     /\ Arguments.t = "dict"
     /\ Arguments.crew_id.t \in {"str", "absent"}) =>
        /\ last.envelope.success
        /\ last.envelope.error = None
        /\ last.envelope.data
             = [t |-> "dict", kind |-> "status",
                crew_id |-> IF last.call.body.params.arguments.crew_id.t = "absent"
                            THEN Str("default")
                            ELSE last.call.body.params.arguments.crew_id,
                status |-> "active",
                agents |-> <<"researcher", "writer", "reviewer">>,
                current_task |-> "Analyzing data", completion |-> "0.75",
                timestamp |-> "2024-01-01T12:00:00Z"]

\* C7 witness: a crew_id sent by the connector comes back as given.
C7_Witness ==
    /\ Handled
    /\ last.call.op = "get_crew_status_from_mcp"
    /\ last.fault = "none"
    /\ last.outcome.val.success
    /\ last.outcome.val.data.crew_id = Str("a\"b")

\* C8: the report execute_crew_with_mcp sends for a non-empty
\* task_description and agent_role comes back success=true with a data
\* record holding the task_description and agent_role it was given.
C8_RoundTrip ==
    (/\ Handled
     /\ last.call.op = "execute_crew_with_mcp"
     /\ last.fault = "none"
     /\ last.call.body.params.arguments.task_description.s # ""
     /\ last.call.body.params.arguments.agent_role.s # "") =>
        /\ ~last.outcome.raised
        /\ last.outcome.val.mcp_response.success
        /\ last.outcome.val.mcp_response.data.task_description
             = last.call.body.params.arguments.task_description
        /\ last.outcome.val.mcp_response.data.agent_role
             = last.call.body.params.arguments.agent_role

\* C8 witness: a description with a quote and a backslash made the trip.
C8_Witness ==
    /\ Handled
    /\ last.call.op = "execute_crew_with_mcp"
    /\ last.fault = "none"
    /\ last.call.wire.params.arguments.task_description = Str("a\\\"\\\\")
    /\ last.outcome.val.mcp_response.data.task_description = Str("a\"\\")
    /\ last.outcome.val.mcp_response.data.agent_role = Str("writer")

\* C9: POST /mcp is answered 200 exactly when the body parses as a Request
\* (method a string, params a mapping or absent), whether the envelope
\* reports success or failure; anything else is answered with another status.
C9_Status200 ==
    Posted =>
        (last.http.status = 200
            <=> (/\ last.call.body.method.t = "str"
                 /\ last.call.body.params.t \in {"dict", "absent"}))

\* C9 witness: a failure the dispatcher reports, answered 200.
C9_Witness ==
    /\ Posted
    /\ last.call.body.params.t = "absent"
    /\ last.http.status = 200
    /\ ~last.envelope.success
    /\ last.envelope.error = Str("Unknown tool: None")

\* The last exchange is a connector operation that sent its request.
ConnectorSent ==
    /\ last.call.op \in {"send_mcp_request", "list_mcp_tools",
                         "get_crew_status_from_mcp", "execute_crew_with_mcp"}
    /\ last.handled \/ last.fault # "none"
\* The caller's side saw a transport fault: no response, or one that is not 200.
TransportFault == last.fault # "none" \/ last.http.status # 200
\* The response was a 200 whose envelope reports a failure.
EnvelopeFailure == ~TransportFault /\ ~last.envelope.success
HasPrefix(x, prefix) == Len(x) >= Len(prefix) /\ SubSeq(x, 1, Len(prefix)) = prefix
HasSuffix(x, suffix) ==
    Len(x) >= Len(suffix) /\ SubSeq(x, Len(x) - Len(suffix) + 1, Len(x)) = suffix
SendFailed == "Failed to send MCP request: "

C11_RequestsIndependent ==
    /\ tools = InitialTools
    /\ \A e \in inflight :
          e.pc = "done" =>
              e.envelope = handle_mcp_request(e.request, InitialTools, hashSeed).envelope

\* C11 witness: a later request was answered while an earlier one was still
\* at its await.
C11_Witness ==
    \E e1 \in inflight, e2 \in inflight :
        /\ e1.id < e2.id
        /\ e1.pc = "execute_tool"
        /\ e1.request.params.name = Str("execute_crew_task")
        /\ e2.pc = "done"
        /\ e2.request.method = "list_tools"
        /\ e2.envelope.success

====
